---- MODULE Spec2Model ----
(***************************************************************************)
(* Model of the catalogue embedding refresh of the product search system:  *)
(* scripts/generate-embeddings.mjs (generateSimpleEmbedding,               *)
(* generateEmbedding, generateAllEmbeddings) over the tables declared in   *)
(* drizzle/schema.ts and drizzle/0001_old_eternity.sql.                    *)
(* Also the session service SDKServer (createSessionToken, signSession,    *)
(* verifySession, authenticateRequest) over the users table.               *)
(*                                                                         *)
(* Representation.  A JavaScript string is a sequence of one-character     *)
(* strings (UTF-16 code units), so that length, slice, split, trim and     *)
(* charCodeAt are modelled by what they do.  A JavaScript value is a       *)
(* record [t, v] tagged with its type.  Floating point numbers are         *)
(* fixed-point integers scaled by Scale (TLC integers are 32 bits wide;    *)
(* the intermediate scales below are chosen so that nothing overflows).    *)
(***************************************************************************)
EXTENDS Integers, Sequences, FiniteSets, TLC

(***************************************************************************)
(* Bounds of the model.                                                    *)
(***************************************************************************)
\* Longest text the embedder is applied to in the pure-function specification.
MaxLen == 3
\* Largest number of product rows in the catalogue.
MaxProducts == 2
\* Number of upload jobs (refresh runs) followed.
MaxJobs == 2
\* Largest number of ranking_weights rows.
MaxWeights == 3
\* Characters by which the long description exceeds the textUsed cut.
LongExtra == 1
\* Half seconds the clock is followed for.
MaxTicks == 3
\* Calls of authenticateRequest followed.
MaxRequests == 2

(***************************************************************************)
(* Program constants.                                                      *)
(***************************************************************************)
\* generate-embeddings.mjs:18  const EMBEDDING_DIMENSION = 384;
EMBEDDING_DIMENSION == 384
\* generate-embeddings.mjs:100  textToEmbed.slice(0, 1000)
TextUsedMax == 1000

\* Fixed-point scale of the modelled floating point numbers (1.0 = Scale).
Scale == 100 * 100

(***************************************************************************)
(* Characters and strings.                                                 *)
(***************************************************************************)
\* String.prototype.charCodeAt for the characters the model uses.
CharCode ==
    ("a" :> 97) @@ ("b" :> 98) @@ ("c" :> 99) @@
    ("A" :> 65) @@ ("B" :> 66) @@ ("C" :> 67) @@
    ("1" :> 49) @@ ("2" :> 50) @@
    (" " :> 32) @@ ("," :> 44) @@ ("[" :> 91) @@ ("]" :> 93) @@ ("\"" :> 34)

\* String.prototype.toLowerCase on one code unit.
LowerChar(c) ==
    CASE c = "A" -> "a"
      [] c = "B" -> "b"
      [] c = "C" -> "c"
      [] OTHER -> c

\* String.prototype.toLowerCase.
toLowerCase(text) == [j \in 1..Len(text) |-> LowerChar(text[j])]

IsWhitespace(c) == c = " "
IsDigit(c) == c \in {"1", "2"}

Abs(n) == IF n < 0 THEN -n ELSE n
Sign(n) == IF n < 0 THEN -1 ELSE 1

(***************************************************************************)
(* Fixed-point mathematics.                                                *)
(***************************************************************************)
\* Math.sin(k * 0.01), scaled by Scale: the angle is reduced modulo 2*pi
\* (62832 units of 1e-4 rad), folded into [0, pi/2] and evaluated by the
\* Taylor polynomial of degree 9.
SinS(k) ==
    LET a   == (k * 100) % 62832
        neg == a >= 31416
        b   == IF neg THEN a - 31416 ELSE a
        c   == IF b > 15708 THEN 31416 - b ELSE b
        y2  == (c * c) \div 10000
        t3  == (c * y2) \div 60000
        t5  == (t3 * y2) \div 200000
        t7  == (t5 * y2) \div 420000
        t9  == (t7 * y2) \div 720000
        s   == c - t3 + t5 - t7 + t9
    IN  IF neg THEN -s ELSE s

\* Math.tanh(x), x and the result scaled by Scale: the (7,6) Pade
\* approximant, saturated to 1 from |x| >= 4.5.
TanhS(x) ==
    LET ax  == Abs(x)
        q   == (ax * ax) \div 1000000
        x4  == (q * q) \div 100
        x6  == (x4 * q) \div 100
        num == 13513500 + 17325 * q + 378 * x4 + x6
        den == 13513500 + 62370 * q + 3150 * x4 + 28 * x6
        r   == ((num \div 100) * 1000) \div (den \div 100)
    IN  IF ax >= 45000 THEN Sign(x) * Scale
        ELSE Sign(x) * ((ax * r) \div 1000)

RECURSIVE IsqrtBetween(_, _, _)
IsqrtBetween(n, lo, hi) ==
    IF lo >= hi THEN lo
    ELSE LET mid == (lo + hi + 1) \div 2
         IN  IF mid * mid <= n THEN IsqrtBetween(n, mid, hi)
             ELSE IsqrtBetween(n, lo, mid - 1)

\* Math.sqrt on a non-negative integer (floor of the root).
Isqrt(n) == IsqrtBetween(n, 0, 46340)

\* Sum of f[lo..hi], by halving (Array.prototype.reduce with +).
RECURSIVE SumRange(_, _, _)
SumRange(f, lo, hi) ==
    IF lo > hi THEN 0
    ELSE IF lo = hi THEN f[lo]
    ELSE LET mid == (lo + hi) \div 2
         IN  SumRange(f, lo, mid) + SumRange(f, mid + 1, hi)

(***************************************************************************)
(* generateSimpleEmbedding / generateEmbedding.                            *)
(***************************************************************************)
\* The inner loop: value += charCodeAt(j) * Math.sin((i + 1) * (j + 1) * 0.01)
\* for the i-th component (i from 1), scaled by Scale.
HashValue(normalizedText, i) ==
    SumRange([j \in 1..Len(normalizedText) |->
                 CharCode[normalizedText[j]] * SinS(i * j)],
             1, Len(normalizedText))

\* RawEmbedding without the toLowerCase of line 26.
RawEmbeddingCaseSensitive(text, dim) ==
    [i \in 1..dim |->
        LET value == HashValue(text, i)
        IN  TanhS(Sign(value) * (Abs(value) \div 1000))]

\* embedding.push(Math.tanh(value * 0.001)) for i = 0 .. dim - 1.
RawEmbedding(text, dim) ==
    LET normalizedText == toLowerCase(text)
    IN  [i \in 1..dim |->
            LET value == HashValue(normalizedText, i)
            IN  TanhS(Sign(value) * (Abs(value) \div 1000))]

\* The L2 normalisation: magnitude is kept at scale 1000, and
\* (magnitude || 1) replaces a zero magnitude by 1.
L2Normalize(embedding) ==
    LET squares   == [i \in 1..Len(embedding) |->
                         (embedding[i] * embedding[i]) \div 100]
        magnitude == Isqrt(SumRange(squares, 1, Len(embedding)))
        divisor   == IF magnitude = 0 THEN 1000 ELSE magnitude
    IN  [i \in 1..Len(embedding) |->
            Sign(embedding[i]) * ((Abs(embedding[i]) * 1000) \div divisor)]

\* generateSimpleEmbedding with the loop of line 29 run once too often
\* (i <= EMBEDDING_DIMENSION).
generateSimpleEmbeddingOneMore(text) ==
    L2Normalize(RawEmbedding(text, EMBEDDING_DIMENSION + 1))

generateSimpleEmbedding(text) ==
    L2Normalize(RawEmbedding(text, EMBEDDING_DIMENSION))

(***************************************************************************)
(* JavaScript values: [t |-> type tag, v |-> payload].  A string's payload *)
(* is its characters, a number's its decimal digits, an array's its        *)
(* elements.                                                               *)
(***************************************************************************)
JNull == [t |-> "null", v |-> <<>>]
JStr(s) == [t |-> "string", v |-> s]
JNum(digits) == [t |-> "number", v |-> digits]
JArr(items) == [t |-> "array", v |-> items]

\* Boolean(value): null, undefined, "" and 0 are falsy; arrays and objects
\* are truthy.
Truthy(value) ==
    CASE value.t = "null" -> FALSE
      [] value.t = "undefined" -> FALSE
      [] value.t = "string" -> value.v # <<>>
      [] value.t = "number" -> value.v # <<"0">>
      [] OTHER -> TRUE

RECURSIVE JoinChars(_, _)
\* Concatenation of the strings of a sequence, sep between neighbours.
JoinChars(strings, sep) ==
    IF strings = <<>> THEN <<>>
    ELSE IF Len(strings) = 1 THEN strings[1]
    ELSE strings[1] \o sep \o JoinChars(Tail(strings), sep)

RECURSIVE ToStringJS(_)
\* String(value).  Array.prototype.toString joins the elements with ",",
\* a null element giving the empty string.
ToStringJS(value) ==
    CASE value.t = "null" -> <<"n", "u", "l", "l">>
      [] value.t = "array" ->
            JoinChars([k \in 1..Len(value.v) |->
                          IF value.v[k].t = "null" THEN <<>>
                          ELSE ToStringJS(value.v[k])], <<",">>)
      [] OTHER -> value.v

\* Array.prototype.join(sep) of an array of values.
JoinJS(items, sep) ==
    JoinChars([k \in 1..Len(items) |->
                  IF items[k].t = "null" THEN <<>> ELSE ToStringJS(items[k])],
              sep)

RECURSIVE FilterTruthy(_)
\* Array.prototype.filter(Boolean).
FilterTruthy(items) ==
    IF items = <<>> THEN <<>>
    ELSE IF Truthy(Head(items)) THEN <<Head(items)>> \o FilterTruthy(Tail(items))
    ELSE FilterTruthy(Tail(items))

RECURSIVE SplitFrom(_, _, _)
SplitFrom(s, sep, cur) ==
    IF s = <<>> THEN <<cur>>
    ELSE IF Head(s) = sep THEN <<cur>> \o SplitFrom(Tail(s), sep, <<>>)
    ELSE SplitFrom(Tail(s), sep, Append(cur, Head(s)))

\* String.prototype.split(sep) for a one-character separator.
Split(s, sep) == SplitFrom(s, sep, <<>>)

RECURSIVE TrimStart(_)
TrimStart(s) ==
    IF s # <<>> /\ IsWhitespace(Head(s)) THEN TrimStart(Tail(s)) ELSE s

RECURSIVE TrimEnd(_)
TrimEnd(s) ==
    IF s # <<>> /\ IsWhitespace(s[Len(s)])
    THEN TrimEnd(SubSeq(s, 1, Len(s) - 1)) ELSE s

\* String.prototype.trim.
Trim(s) == TrimEnd(TrimStart(s))

\* String.prototype.slice(0, n).
Slice0(s, n) == SubSeq(s, 1, IF Len(s) < n THEN Len(s) ELSE n)

(***************************************************************************)
(* JSON.parse, for the JSON texts that can be written with the characters  *)
(* of CharCode: strings without escapes, unsigned integers and arrays.     *)
(* (No text over these characters spells true, false, null, an object, a   *)
(* fraction or an escape, so every other text is a SyntaxError.)           *)
(***************************************************************************)
ParseFail == [ok |-> FALSE, val |-> JNull, next |-> 0]

RECURSIVE SkipWs(_, _)
SkipWs(s, i) ==
    IF i <= Len(s) /\ IsWhitespace(s[i]) THEN SkipWs(s, i + 1) ELSE i

RECURSIVE ScanTo(_, _, _)
\* First index from i whose character is not in chars (Len(s) + 1 if none).
ScanTo(s, i, chars) ==
    IF i <= Len(s) /\ s[i] \in chars THEN ScanTo(s, i + 1, chars) ELSE i

RECURSIVE ParseValue(_, _)
RECURSIVE ParseElements(_, _, _)
ParseValue(s, i) ==
    IF i > Len(s) THEN ParseFail
    ELSE IF s[i] = "\"" THEN
        LET k == ScanTo(s, i + 1, DOMAIN CharCode \ {"\""})
        IN  IF k > Len(s) THEN ParseFail
            ELSE [ok |-> TRUE, val |-> JStr(SubSeq(s, i + 1, k - 1)), next |-> k + 1]
    ELSE IF IsDigit(s[i]) THEN
        LET k == ScanTo(s, i, {"1", "2"})
        IN  [ok |-> TRUE, val |-> JNum(SubSeq(s, i, k - 1)), next |-> k]
    ELSE IF s[i] = "[" THEN
        LET k == SkipWs(s, i + 1)
        IN  IF k <= Len(s) /\ s[k] = "]"
            THEN [ok |-> TRUE, val |-> JArr(<<>>), next |-> k + 1]
            ELSE ParseElements(s, k, <<>>)
    ELSE ParseFail

ParseElements(s, i, acc) ==
    LET e == ParseValue(s, i)
        k == SkipWs(s, e.next)
    IN  IF ~e.ok \/ k > Len(s) THEN ParseFail
        ELSE IF s[k] = "]"
        THEN [ok |-> TRUE, val |-> JArr(Append(acc, e.val)), next |-> k + 1]
        ELSE IF s[k] = ","
        THEN ParseElements(s, SkipWs(s, k + 1), Append(acc, e.val))
        ELSE ParseFail

\* JSON.parse(text): ok = FALSE stands for the SyntaxError it throws.
JSONParse(text) ==
    LET r == ParseValue(text, SkipWs(text, 1))
    IN  IF r.ok /\ SkipWs(text, r.next) = Len(text) + 1
        THEN [ok |-> TRUE, val |-> r.val]
        ELSE [ok |-> FALSE, val |-> JNull]

(***************************************************************************)
(* generateAllEmbeddings, the body of the loop: the text to embed.         *)
(***************************************************************************)
\* Lines 69-80: the feature list taken from product.features.  JSON.parse
\* converts its argument to a string first.
ParseFeatures(features) ==
    IF ~Truthy(features) THEN JArr(<<>>)
    ELSE LET parsed == JSONParse(ToStringJS(features))
         IN  IF parsed.ok THEN parsed.val
             ELSE IF features.t = "string"
             THEN LET parts == Split(features.v, ",")
                  IN  JArr([k \in 1..Len(parts) |-> JStr(Trim(parts[k]))])
             ELSE JArr(<<JStr(ToStringJS(features))>>)

\* The spread ...features of line 87: an array gives its elements, a string
\* its characters, and any other value is not iterable (a TypeError).
Spread(value) ==
    CASE value.t = "array" -> [ok |-> TRUE, items |-> value.v]
      [] value.t = "string" ->
            [ok |-> TRUE, items |-> [k \in 1..Len(value.v) |-> JStr(<<value.v[k]>>)]]
      [] OTHER -> [ok |-> FALSE, items |-> <<>>]

\* Lines 81-88: [title, ..., brand, ...features].filter(Boolean).join(" ");
\* ok = FALSE stands for the TypeError of the spread.
BuildTextToEmbed(product) ==
    LET spread == Spread(ParseFeatures(product.features))
        fields == <<product.title, product.description, product.category,
                    product.subcategory, product.brand>>
    IN  [ok   |-> spread.ok,
         text |-> IF spread.ok
                  THEN JoinJS(FilterTruthy(fields \o spread.items), <<" ">>)
                  ELSE <<>>]

(***************************************************************************)
(* The embedder as the refresh calls it.  generateSimpleEmbedding is a     *)
(* pure function, so its value on the texts of the model is evaluated once *)
(* (EmbeddingMemo) and looked up afterwards.                               *)
(***************************************************************************)
Quote == "\""

\* The texts of the pure-function specification: every text of at most
\* MaxLen characters over a letter, its capital and the space.
RECURSIVE TextsUpTo(_)
TextsUpTo(n) ==
    IF n = 0 THEN {<<>>}
    ELSE LET shorter == TextsUpTo(n - 1)
         IN  shorter \cup {Append(t, c) : t \in shorter, c \in {"a", "A", " "}}

Texts == TextsUpTo(MaxLen)

\* A description that makes the text to embed LongExtra characters longer
\* than the prefix kept in textUsed (the title and a space come before it).
LongDescription == [j \in 1..(TextUsedMax - 2 + LongExtra) |-> "a"]

\* Product rows as SELECT id, title, description, category, subcategory,
\* brand, features FROM products returns them (schema.ts:24-44): title is
\* NOT NULL, the other columns are nullable, features is a JSON column.
ProductShapes ==
    << \* every field set, features stored as JSON array text
       [id |-> 0, title |-> JStr(<<"A", "b">>), description |-> JStr(<<"c">>),
        category |-> JStr(<<"a">>), subcategory |-> JStr(<<"b">>),
        brand |-> JStr(<<"B">>),
        features |-> JStr(<<"[", Quote, "a", Quote, ",", " ", Quote, "b", Quote, "]">>)],
       \* features that make the spread throw: the array ["12"] reads as the
       \* JSON number 12
       [id |-> 0, title |-> JStr(<<"C">>), description |-> JNull,
        category |-> JNull, subcategory |-> JNull, brand |-> JNull,
        features |-> JArr(<<JStr(<<"1", "2">>)>>)],
       \* features already parsed by the driver (a JSON column)
       [id |-> 0, title |-> JStr(<<"A">>), description |-> JNull,
        category |-> JStr(<<"c">>), subcategory |-> JNull, brand |-> JNull,
        features |-> JArr(<<JStr(<<"a">>), JStr(<<"b">>)>>)],
       \* features as a comma-separated string, an empty description
       [id |-> 0, title |-> JStr(<<"B">>), description |-> JStr(<<>>),
        category |-> JNull, subcategory |-> JNull, brand |-> JStr(<<"a">>),
        features |-> JStr(<<"a", ",", " ", "b">>)],
       \* no features
       [id |-> 0, title |-> JStr(<<"a", "B">>), description |-> JStr(<<"c">>),
        category |-> JNull, subcategory |-> JNull, brand |-> JNull,
        features |-> JNull],
       \* a long description
       [id |-> 0, title |-> JStr(<<"A">>), description |-> JStr(LongDescription),
        category |-> JNull, subcategory |-> JNull, brand |-> JNull,
        features |-> JNull],
       \* nothing to embed: an empty title and no other field
       [id |-> 0, title |-> JStr(<<>>), description |-> JNull,
        category |-> JNull, subcategory |-> JNull, brand |-> JNull,
        features |-> JNull] >>

\* The catalogues of the model: n <= MaxProducts rows with ids 1..n, taken
\* in order from ProductShapes starting anywhere (and wrapping around).
Catalogue(start, n) ==
    [i \in 1..n |->
        [ProductShapes[((start + i - 2) % Len(ProductShapes)) + 1] EXCEPT !.id = i]]

Catalogues ==
    {Catalogue(start, n) : start \in 1..Len(ProductShapes), n \in 0..MaxProducts}

MemoTexts ==
    Texts \cup {BuildTextToEmbed(ProductShapes[k]).text : k \in 1..Len(ProductShapes)}

EmbeddingMemo == [t \in MemoTexts |-> generateSimpleEmbedding(t)]

\* async function generateEmbedding(text): return generateSimpleEmbedding(text).
generateEmbedding(text) ==
    IF text \in DOMAIN EmbeddingMemo THEN EmbeddingMemo[text]
    ELSE generateSimpleEmbedding(text)

(***************************************************************************)
(* The tables (schema.ts, 0001_old_eternity.sql).                          *)
(***************************************************************************)
\* product_embeddings.embeddingModel: .default("all-MiniLM-L6-v2").
DefaultEmbeddingModel == "all-MiniLM-L6-v2"
\* The model identifier written by the INSERT of the refresh.
SimpleHashModel == "simple-hash-v1"

\* catalog_upload_jobs.status: the enum, in its declared order, and its
\* default.
JobStatuses == <<"pending", "processing", "embedding", "completed", "failed">>
DefaultJobStatus == "pending"

NoJob == [id |-> 0, status |-> "none", errorMessage |-> "NULL"]

\* A vector written by the model-backed embedder (any vector of the
\* dimension that generateSimpleEmbedding does not produce here).
ModelBackedVector == [i \in 1..EMBEDDING_DIMENSION |-> IF i = 1 THEN Scale ELSE 0]

\* A product_embeddings row the model-backed embedder of the application
\* stored earlier, embeddingModel left to its default.
ModelBackedRow(product) ==
    [id |-> product.id, productId |-> product.id,
     embedding |-> ModelBackedVector,
     embeddingModel |-> DefaultEmbeddingModel,
     textUsed |-> ToStringJS(product.title)]

\* JSON.stringify(embedding) stored in the JSON column: an array of finite
\* numbers is stored as the array of the same numbers.
JSONStringify(embedding) == [i \in 1..Len(embedding) |-> embedding[i]]

\* Upsert without the unique key on productId: every call inserts a row.
UpsertAlwaysInserts(table, newId, productId, embedding, textUsed) ==
    table \cup {[id |-> newId, productId |-> productId,
                 embedding |-> embedding,
                 embeddingModel |-> SimpleHashModel,
                 textUsed |-> textUsed]}

\* Upsert whose update is not restricted to the row of productId.
UpsertUpdatesEveryRow(table, newId, productId, embedding, textUsed) ==
    IF \E r \in table : r.productId = productId
    THEN {[r EXCEPT !.embedding = embedding, !.textUsed = textUsed] : r \in table}
    ELSE table \cup {[id |-> newId, productId |-> productId,
                      embedding |-> embedding,
                      embeddingModel |-> SimpleHashModel,
                      textUsed |-> textUsed]}

\* INSERT INTO product_embeddings (...) VALUES (?, ?, 'simple-hash-v1', ?, ...)
\* ON DUPLICATE KEY UPDATE embedding = VALUES(embedding),
\* textUsed = VALUES(textUsed): productId is UNIQUE, so a row with the same
\* productId is updated in place and no row is added.  (createdAt and
\* updatedAt are not modelled.)
Upsert(table, newId, productId, embedding, textUsed) ==
    IF \E r \in table : r.productId = productId
    THEN {IF r.productId = productId
          THEN [r EXCEPT !.embedding = embedding, !.textUsed = textUsed]
          ELSE r : r \in table}
    ELSE table \cup {[id |-> newId, productId |-> productId,
                      embedding |-> embedding,
                      embeddingModel |-> SimpleHashModel,
                      textUsed |-> textUsed]}

\* TryCatch whose catch block leaves out failed++.
TryCatchForgetsFailed(successCount, failedCount, thrown) ==
    [success  |-> IF thrown THEN successCount ELSE successCount + 1,
     failed   |-> failedCount,
     rethrown |-> FALSE]

\* TryCatch whose catch block throws the error again.
TryCatchRethrows(successCount, failedCount, thrown) ==
    [success  |-> IF thrown THEN successCount ELSE successCount + 1,
     failed   |-> IF thrown THEN failedCount + 1 ELSE failedCount,
     rethrown |-> thrown]

\* The try / catch around one product (lines 67, 103-108): success++ when
\* the body ran to its end, failed++ when it threw; the error is not
\* rethrown, so the loop goes on.
TryCatch(successCount, failedCount, thrown) ==
    [success  |-> IF thrown THEN successCount ELSE successCount + 1,
     failed   |-> IF thrown THEN failedCount + 1 ELSE failedCount,
     rethrown |-> FALSE]

\* ranking_weights.isActive: boolean("isActive").default(true); the value of
\* the column for an INSERT that gives it or leaves it out.
IsActiveColumn(given, value) == IF given THEN value ELSE TRUE

(***************************************************************************)
(* Sessions: SDKServer (createSessionToken, signSession, verifySession,    *)
(* authenticateRequest).  A number of milliseconds is a record [s, r]:     *)
(* s whole seconds and r < 1000 milliseconds, so that a year of            *)
(* milliseconds stays within the integers of TLC and Math.floor(ms / 1000) *)
(* is the field s.  A compact JWT is the string of its three segments,     *)
(* <<header, claims, mac>>.                                                *)
(***************************************************************************)
JUndefined == [t |-> "undefined", v |-> <<>>]
JObj(fields) == [t |-> "object", v |-> fields]

Ms(seconds, millis) == [s |-> seconds, r |-> millis]
MsAdd(a, b) ==
    LET r == a.r + b.r
    IN  [s |-> a.s + b.s + (r \div 1000), r |-> r % 1000]

\* import { COOKIE_NAME, ONE_YEAR_MS } from "@shared/const"
COOKIE_NAME == "app_session_id"
ONE_YEAR_MS == Ms(60 * 60 * 24 * 365, 0)

\* A call that returned value, and a call that threw an error of that name.
Returned(value) == [threw |-> FALSE, error |-> "none", value |-> value]
Thrown(name) == [threw |-> TRUE, error |-> name, value |-> JUndefined]

\* isNonEmptyString, were it to test the type only.
isStringOfAnyLength(value) == value.t = "string"

isNonEmptyString(value) == value.t = "string" /\ Len(value.v) > 0

\* getSessionSecret: throws when ENV.cookieSecret is falsy, else its bytes.
getSessionSecret(env) ==
    IF ~Truthy(env.cookieSecret)
    THEN Thrown("Error")
    ELSE Returned(env.cookieSecret.v)

\* jose: the signature of HS256 over header and claims under a key.
Mac(key, header, claims) == [key |-> key, header |-> header, claims |-> claims]

\* new SignJWT(claims).setProtectedHeader(header).setExpirationTime(exp)
\* .sign(key): the compact token.
SignJWT(claims, header, exp, key) ==
    LET withExp == [openId |-> claims.openId, appId |-> claims.appId,
                    name |-> claims.name, exp |-> exp]
    IN  JStr(<<header, withExp, Mac(key, header, withExp)>>)

\* jose jwtVerify(jwt, key, {algorithms}): throws unless jwt has three
\* segments, its algorithm is allowed, its signature is the key's and its
\* exp lies after the current second; returns its claims.
jwtVerify(jwt, key, algorithms, nowMs) ==
    IF jwt.t # "string" \/ Len(jwt.v) # 3
    THEN Thrown("JWSInvalid")
    ELSE LET header == jwt.v[1]
             claims == jwt.v[2]
         IN  IF header.alg \notin algorithms
             THEN Thrown("JOSEAlgNotAllowed")
             ELSE IF jwt.v[3] # Mac(key, header, claims)
             THEN Thrown("JWSSignatureVerificationFailed")
             ELSE IF claims.exp <= nowMs.s
             THEN Thrown("JWTExpired")
             ELSE Returned(claims)

\* signSession(payload, options) at Date.now() = nowMs; expires is
\* options.expiresInMs, [given |-> FALSE] when it is left undefined.
signSession(payload, expires, env, nowMs) ==
    LET issuedAt == nowMs
        expiresInMs == IF expires.given THEN expires.ms ELSE ONE_YEAR_MS
        expirationSeconds == MsAdd(issuedAt, expiresInMs).s
        secret == getSessionSecret(env)
    IN  IF secret.threw
        THEN secret
        ELSE Returned(SignJWT([openId |-> payload.openId,
                               appId |-> payload.appId,
                               name |-> payload.name],
                              [alg |-> "HS256", typ |-> "JWT"],
                              expirationSeconds, secret.value))

\* The payload createSessionToken hands to signSession.
SessionPayloadOf(openId, name, env) ==
    [openId |-> openId,
     appId |-> env.appId,
     name |-> IF Truthy(name) THEN name ELSE JStr(<<>>)]

\* createSessionToken(openId, {expiresInMs, name}); name is JUndefined when
\* the option is left out.
createSessionToken(openId, expires, name, env, nowMs) ==
    signSession(SessionPayloadOf(openId, name, env), expires, env, nowMs)

\* verifySession(cookieValue) at Date.now() = nowMs.
verifySession(cookieValue, env, nowMs) ==
    IF ~Truthy(cookieValue)
    THEN Returned(JNull)
    ELSE LET secret == getSessionSecret(env)
             verified == IF secret.threw
                         THEN secret
                         ELSE jwtVerify(cookieValue, secret.value, {"HS256"},
                                        nowMs)
             openId == verified.value.openId
             appId == verified.value.appId
             name == verified.value.name
             body ==
                 IF verified.threw
                 THEN verified
                 ELSE IF \/ ~isNonEmptyString(openId)
                         \/ ~isNonEmptyString(appId)
                         \/ ~isNonEmptyString(name)
                 THEN Returned(JNull)
                 ELSE IF Truthy(env.appId) /\ appId # env.appId
                 THEN Returned(JNull)
                 ELSE Returned(JObj([openId |-> openId, appId |-> appId,
                                     name |-> name]))
         IN  \* try { ... } catch { return null; }
             IF body.threw THEN Returned(JNull) ELSE body

\* cookie.parse(header): the header is the sequence of its name=value
\* pairs; the first pair of a name wins.
RECURSIVE parseCookieHeader(_)
parseCookieHeader(pairs) ==
    IF pairs = <<>>
    THEN <<>>
    ELSE LET rest == parseCookieHeader(Tail(pairs))
         IN  <<Head(pairs)>> \o
             SelectSeq(rest, LAMBDA p : p.name # Head(pairs).name)

\* parseCookies(cookieHeader): the Map of the cookies, as its entries.
parseCookies(cookieHeader) ==
    IF ~Truthy(cookieHeader) THEN <<>> ELSE parseCookieHeader(cookieHeader.v)

\* Map.prototype.get
MapGet(entries, key) ==
    LET hits == SelectSeq(entries, LAMBDA p : p.name = key)
    IN  IF hits = <<>> THEN JUndefined ELSE hits[1].value

\* db.getUserByOpenId(openId): the users row of that openId, or undefined.
getUserByOpenId(store, openId) ==
    LET rows == {u \in store : JStr(u.openId) = openId}
    IN  IF rows = {} THEN JUndefined ELSE JObj(CHOOSE u \in rows : TRUE)

\* db.upsertUser({openId, role, lastSignedIn}): the row of that openId takes
\* the fields given; without a row, one is inserted.
upsertUser(store, user) ==
    IF \E u \in store : u.openId = user.openId
    THEN {IF u.openId = user.openId
          THEN [u EXCEPT !.role = user.role,
                         !.lastSignedIn = user.lastSignedIn]
          ELSE u : u \in store}
    ELSE store \cup {user}

\* ForbiddenError(message)
ForbiddenError(message) ==
    [threw |-> TRUE, error |-> "ForbiddenError", message |-> message,
     value |-> JUndefined]

\* authenticateRequest, were it to write the sign-in before it looks the
\* user up.
authenticateRequestUpsertsFirst(req, store, env, nowMs) ==
    LET cookies == parseCookies(req.headers.cookie)
        sessionCookie == MapGet(cookies, COOKIE_NAME)
        session == verifySession(sessionCookie, env, nowMs)
        user == getUserByOpenId(store, session.value.v.openId)
        write == [openId |-> session.value.v.openId.v, role |-> "admin",
                  lastSignedIn |-> nowMs]
    IN  IF ~Truthy(session.value)
        THEN [outcome |-> ForbiddenError("Invalid session cookie"),
              store |-> store, upserts |-> <<>>]
        ELSE IF ~Truthy(user)
        THEN [outcome |-> ForbiddenError("User not found"),
              store |-> upsertUser(store, write), upserts |-> <<write>>]
        ELSE [outcome |-> [threw |-> FALSE, error |-> "none",
                           message |-> "",
                           value |-> JObj([user.v EXCEPT !.role = "admin"])],
              store |-> upsertUser(store, write), upserts |-> <<write>>]

\* authenticateRequest(req) over the users table store at Date.now() =
\* nowMs: what it returns or throws, the table afterwards and the calls of
\* db.upsertUser it made.
authenticateRequest(req, store, env, nowMs) ==
    LET cookies == parseCookies(req.headers.cookie)
        sessionCookie == MapGet(cookies, COOKIE_NAME)
        session == verifySession(sessionCookie, env, nowMs)
        user == getUserByOpenId(store, session.value.v.openId)
        userWithAdmin == [user.v EXCEPT !.role = "admin"]
        write == [openId |-> user.v.openId, role |-> "admin",
                  lastSignedIn |-> nowMs]
    IN  IF session.threw
        THEN [outcome |-> [threw |-> TRUE, error |-> session.error,
                           message |-> "", value |-> JUndefined],
              store |-> store, upserts |-> <<>>]
        ELSE IF ~Truthy(session.value)
        THEN [outcome |-> ForbiddenError("Invalid session cookie"),
              store |-> store, upserts |-> <<>>]
        ELSE IF ~Truthy(user)
        THEN [outcome |-> ForbiddenError("User not found"),
              store |-> store, upserts |-> <<>>]
        ELSE [outcome |-> [threw |-> FALSE, error |-> "none",
                           message |-> "", value |-> JObj(userWithAdmin)],
              store |-> upsertUser(store, write), upserts |-> <<write>>]

(***************************************************************************)
(* State.                                                                  *)
(***************************************************************************)
VARIABLES
    products,            \* the products table (unchanged by the refresh)
    product_embeddings,  \* the product_embeddings table, a set of rows
    nextEmbeddingId,     \* its AUTO_INCREMENT counter
    pc,                  \* where generateAllEmbeddings is
    idx,                 \* products processed by the for loop
    success,             \* let success
    failed,              \* let failed
    errorCause,          \* what made the run reject ("none" if nothing)
    job,                 \* the catalog_upload_jobs row of the current upload
    jobsCreated,         \* upload jobs created so far
    audit,               \* history: per productId, the model and the text of
                         \* the last vector written to its row
    attempts,            \* history: per productId, loop bodies run for it
    threw,               \* history: productIds whose loop body threw
    upserted,            \* history: productIds upserted by the current run
    prev,                \* history: table and upserted set of the run before
    loopsDone,           \* history: runs that went through their whole loop
    ranking_weights,     \* the ranking_weights table, a set of rows
    nextWeightId,        \* its AUTO_INCREMENT counter
    textA, embA,         \* first call of generateEmbedding and its result
    textB, embB,         \* second call and its result
    calls,               \* calls of generateEmbedding made
    ENV,                 \* ENV.appId and ENV.cookieSecret
    clock,               \* Date.now()
    ticks,               \* half seconds passed
    sessionToken,        \* the token minted, undefined before
    minted,              \* history: how the token was minted, from what
    lastVerify,          \* history: the last call of verifySession
    users,               \* the users table, a set of rows
    lastAuth,            \* history: the last call of authenticateRequest
    upsertCalls,         \* history: calls of db.upsertUser made
    requests             \* calls of authenticateRequest made

refreshVars == <<products, product_embeddings, nextEmbeddingId, pc, idx, success,
                 failed, errorCause, job, jobsCreated, audit, attempts, threw,
                 upserted, prev, loopsDone>>
weightVars == <<ranking_weights, nextWeightId>>
embedVars == <<textA, embA, textB, embB, calls>>
sessionVars == <<ENV, clock, ticks, sessionToken, minted, lastVerify, users,
                 lastAuth, upsertCalls, requests>>
vars == <<refreshVars, weightVars, embedVars, sessionVars>>

ProductIds == 1..MaxProducts
NoWrite == [producer |-> "none", text |-> <<>>]
NoPrev == [valid |-> FALSE, table |-> {}, ok |-> {}]

(***************************************************************************)
(* Initial states.                                                         *)
(***************************************************************************)
\* A catalogue, and for any subset of its products a row stored earlier by
\* the model-backed embedder; no upload job yet, the script not running.
InitRefresh ==
    /\ products \in Catalogues
    /\ \E stale \in SUBSET (1..Len(products)) :
          /\ product_embeddings = {ModelBackedRow(products[i]) : i \in stale}
          /\ audit = [p \in ProductIds |->
                         IF p \in stale
                         THEN [producer |-> DefaultEmbeddingModel,
                               text |-> ToStringJS(products[p].title)]
                         ELSE NoWrite]
    /\ nextEmbeddingId = Len(products) + 1
    /\ pc = "idle"
    /\ idx = 0
    /\ success = 0
    /\ failed = 0
    /\ errorCause = "none"
    /\ job = NoJob
    /\ jobsCreated = 0
    /\ attempts = [p \in ProductIds |-> 0]
    /\ threw = {}
    /\ upserted = {}
    /\ prev = NoPrev
    /\ loopsDone = 0

NoRefresh ==
    /\ products = <<>>
    /\ product_embeddings = {}
    /\ audit = [p \in ProductIds |-> NoWrite]
    /\ nextEmbeddingId = 1
    /\ pc = "idle"
    /\ idx = 0
    /\ success = 0
    /\ failed = 0
    /\ errorCause = "none"
    /\ job = NoJob
    /\ jobsCreated = 0
    /\ attempts = [p \in ProductIds |-> 0]
    /\ threw = {}
    /\ upserted = {}
    /\ prev = NoPrev
    /\ loopsDone = 0

InitWeights ==
    /\ ranking_weights = {}
    /\ nextWeightId = 1

InitEmbed ==
    /\ textA = <<>>
    /\ embA = <<>>
    /\ textB = <<>>
    /\ embB = <<>>
    /\ calls = 0

\* Nothing minted, verified or authenticated yet.
NotMinted ==
    [called |-> FALSE, via |-> "none", nameGiven |-> FALSE,
     payload |-> [openId |-> JUndefined, appId |-> JUndefined,
                  name |-> JUndefined],
     threw |-> FALSE]
NotVerified ==
    [called |-> FALSE, cookie |-> JUndefined, at |-> Ms(0, 0),
     outcome |-> Returned(JUndefined)]
NotAuthenticated ==
    [called |-> FALSE, req |-> [headers |-> [cookie |-> JUndefined]],
     at |-> Ms(0, 0), before |-> {}, upsertsBefore |-> 0,
     outcome |-> ForbiddenError("")]

\* The session service at rest: configured, nothing minted, nobody stored.
NoSession ==
    /\ ENV = [appId |-> JStr(<<"a">>), cookieSecret |-> JStr(<<"k">>)]
    /\ clock = Ms(1, 0)
    /\ ticks = 0
    /\ sessionToken = JUndefined
    /\ minted = NotMinted
    /\ lastVerify = NotVerified
    /\ users = {}
    /\ lastAuth = NotAuthenticated
    /\ upsertCalls = 0
    /\ requests = 0

Init == InitRefresh /\ InitWeights /\ InitEmbed /\ NoSession

(***************************************************************************)
(* The upload job, as the interface of the ingestion collaborator           *)
(* describes it: pending -> processing -> embedding -> completed | failed.  *)
(***************************************************************************)
JobAdvance(j, status) == [j EXCEPT !.status = status]
JobFail(j, message) == [j EXCEPT !.status = "failed", !.errorMessage = message]

\* The ingestion collaborator registers an upload: a new catalog_upload_jobs
\* row, status at its default.
CreateUploadJob ==
    /\ jobsCreated < MaxJobs
    /\ job.status \in {"none", "completed", "failed"}
    /\ job' = [id |-> jobsCreated + 1, status |-> DefaultJobStatus,
               errorMessage |-> "NULL"]
    /\ jobsCreated' = jobsCreated + 1
    /\ pc' = "idle"
    /\ UNCHANGED <<products, product_embeddings, nextEmbeddingId, idx, success,
                   failed, errorCause, audit, attempts, threw, upserted, prev,
                   loopsDone, weightVars, embedVars,
                   sessionVars>>

\* The ingestion collaborator has deposited the rows of the upload.
IngestRows ==
    /\ job.status = "pending"
    /\ job' = JobAdvance(job, "processing")
    /\ UNCHANGED <<products, product_embeddings, nextEmbeddingId, pc, idx,
                   success, failed, errorCause, jobsCreated, audit, attempts,
                   threw, upserted, prev,
                   loopsDone, weightVars, embedVars,
                   sessionVars>>

(***************************************************************************)
(* generateAllEmbeddings.                                                  *)
(***************************************************************************)
\* Lines 51-64: connect, SELECT the products, success = failed = 0.  The
\* refresh takes the job from "processing" to "embedding".
StartRefresh ==
    /\ pc = "idle"
    /\ job.status = "processing"
    /\ pc' = "loop"
    /\ idx' = 0
    /\ success' = 0
    /\ failed' = 0
    /\ errorCause' = "none"
    /\ attempts' = [p \in ProductIds |-> 0]
    /\ threw' = {}
    /\ upserted' = {}
    /\ prev' = IF loopsDone > 0
               THEN [valid |-> TRUE, table |-> product_embeddings, ok |-> upserted]
               ELSE NoPrev
    /\ job' = JobAdvance(job, "embedding")
    /\ UNCHANGED <<products, product_embeddings, nextEmbeddingId, jobsCreated,
                   audit,
                   loopsDone, weightVars, embedVars,
                   sessionVars>>

\* mysql.createConnection or the SELECT rejects: the error leaves
\* generateAllEmbeddings (line 117 logs it) before any product is read.
StartRefreshFails ==
    /\ pc = "idle"
    /\ job.status = "processing"
    /\ pc' = "aborted"
    /\ errorCause' = "connect"
    /\ job' = JobFail(job, "connect")
    /\ UNCHANGED <<products, product_embeddings, nextEmbeddingId, idx, success,
                   failed, jobsCreated, audit, attempts, threw, upserted, prev,
                   loopsDone, weightVars, embedVars,
                   sessionVars>>

\* Lines 66-109: one iteration of the for loop.  The body throws when the
\* spread of the features throws or when the INSERT rejects (dbError).
ProcessProduct ==
    /\ pc = "loop"
    /\ idx < Len(products)
    /\ \E dbError \in BOOLEAN :
        LET product     == products[idx + 1]
            built       == BuildTextToEmbed(product)
            textToEmbed == built.text
            embedding   == generateEmbedding(textToEmbed)
            thrown      == ~built.ok \/ dbError
            outcome     == TryCatch(success, failed, thrown)
            written     == Upsert(product_embeddings, nextEmbeddingId, product.id,
                                  JSONStringify(embedding),
                                  Slice0(textToEmbed, TextUsedMax))
        IN  /\ product_embeddings' = IF thrown THEN product_embeddings ELSE written
            /\ nextEmbeddingId' =
                  IF ~thrown /\ Cardinality(written) > Cardinality(product_embeddings)
                  THEN nextEmbeddingId + 1 ELSE nextEmbeddingId
            /\ audit' = IF thrown THEN audit
                        ELSE [audit EXCEPT ![product.id] =
                                 [producer |-> SimpleHashModel, text |-> textToEmbed]]
            /\ success' = outcome.success
            /\ failed' = outcome.failed
            /\ attempts' = [attempts EXCEPT ![product.id] = @ + 1]
            /\ threw' = IF thrown THEN threw \cup {product.id} ELSE threw
            /\ upserted' = IF thrown THEN upserted ELSE upserted \cup {product.id}
            /\ IF outcome.rethrown
               THEN /\ pc' = "aborted"
                    /\ errorCause' = "row"
                    /\ job' = JobFail(job, "row")
                    /\ idx' = idx
               ELSE /\ pc' = pc
                    /\ errorCause' = errorCause
                    /\ job' = job
                    /\ idx' = idx + 1
    /\ UNCHANGED <<products, jobsCreated, prev,
                   loopsDone, weightVars, embedVars,
                   sessionVars>>

\* Lines 111-114: the loop is over, connection.end() and the summary.  The
\* refresh takes the job to "completed".
FinishRefresh ==
    /\ pc = "loop"
    /\ idx = Len(products)
    /\ pc' = "done"
    /\ job' = JobAdvance(job, "completed")
    /\ loopsDone' = loopsDone + 1
    /\ UNCHANGED <<products, product_embeddings, nextEmbeddingId, idx, success,
                   failed, errorCause, jobsCreated, audit, attempts, threw,
                   upserted, prev, weightVars, embedVars,
                   sessionVars>>

\* connection.end() rejects: the error leaves generateAllEmbeddings.
FinishRefreshFails ==
    /\ pc = "loop"
    /\ idx = Len(products)
    /\ pc' = "aborted"
    /\ errorCause' = "end"
    /\ job' = JobFail(job, "end")
    /\ loopsDone' = loopsDone + 1
    /\ UNCHANGED <<products, product_embeddings, nextEmbeddingId, idx, success,
                   failed, jobsCreated, audit, attempts, threw, upserted, prev,
                   weightVars, embedVars,
                   sessionVars>>

Next ==
    \/ CreateUploadJob
    \/ IngestRows
    \/ StartRefresh
    \/ StartRefreshFails
    \/ ProcessProduct
    \/ FinishRefresh
    \/ FinishRefreshFails

Spec == Init /\ [][Next]_vars

(***************************************************************************)
(* The ranking_weights table: rows are inserted and updated through the    *)
(* store; the schema declares no constraint on isActive.  (Of the weights  *)
(* only alpha is kept, in thousandths.)                                    *)
(***************************************************************************)
InsertRankingWeights ==
    /\ Cardinality(ranking_weights) < MaxWeights
    /\ \E name \in {"default", "custom"}, alpha \in {500, 300},
          given \in BOOLEAN, value \in BOOLEAN :
          ranking_weights' = ranking_weights \cup
              {[id |-> nextWeightId, name |-> name, alpha |-> alpha,
                isActive |-> IsActiveColumn(given, value)]}
    /\ nextWeightId' = nextWeightId + 1
    /\ UNCHANGED <<refreshVars, embedVars,
                   sessionVars>>

UpdateRankingWeights ==
    /\ \E row \in ranking_weights, value \in BOOLEAN :
          /\ row.isActive # value
          /\ ranking_weights' =
                (ranking_weights \ {row}) \cup {[row EXCEPT !.isActive = value]}
    /\ UNCHANGED <<nextWeightId, refreshVars, embedVars,
                   sessionVars>>

NextWeights ==
    \/ InsertRankingWeights
    \/ UpdateRankingWeights

\* No catalogue and no refresh: the tables empty, the embedder not called.
InitNoRefresh == NoRefresh /\ InitWeights /\ InitEmbed /\ NoSession

SpecWeights == InitNoRefresh /\ [][NextWeights]_vars

(***************************************************************************)
(* The embedder on its own: two calls of generateEmbedding, on any two     *)
(* texts of Texts.                                                         *)
(***************************************************************************)
EmbedFirst ==
    /\ calls = 0
    /\ \E t \in Texts :
          /\ textA' = t
          /\ embA' = generateEmbedding(t)
    /\ calls' = 1
    /\ UNCHANGED <<textB, embB, refreshVars, weightVars,
                   sessionVars>>

EmbedSecond ==
    /\ calls = 1
    /\ \E t \in Texts :
          /\ textB' = t
          /\ embB' = generateEmbedding(t)
    /\ calls' = 2
    /\ UNCHANGED <<textA, embA, refreshVars, weightVars,
                   sessionVars>>

NextEmbed ==
    \/ EmbedFirst
    \/ EmbedSecond

SpecEmbed == InitNoRefresh /\ [][NextEmbed]_vars

(***************************************************************************)
(* Sessions.  One token is minted, by signSession or createSessionToken;   *)
(* time passes; verifySession is called on any cookie value, among them    *)
(* the minted token and forgeries of it.                                   *)
(***************************************************************************)
\* The values of ENV: an app id configured or not, a secret set or not.
Environments ==
    {[appId |-> a, cookieSecret |-> k] :
        a \in {JStr(<<>>), JStr(<<"a">>)},
        k \in {JStr(<<>>), JStr(<<"k">>)}}

\* Payloads handed to signSession.
SessionPayloads ==
    {[openId |-> o, appId |-> a, name |-> n] :
        o \in {JStr(<<>>), JStr(<<"u">>), JNum(<<"7">>)},
        a \in {JStr(<<>>), JStr(<<"a">>), JStr(<<"b">>)},
        n \in {JStr(<<>>), JStr(<<"n">>)}}

\* options.expiresInMs: left out, or a second and a half.
ExpiryOptions == {[given |-> FALSE, ms |-> Ms(0, 0)],
                  [given |-> TRUE, ms |-> Ms(1, 500)]}

\* The minted token with a claim changed, the signature left as it was.
Tamper(token) ==
    JStr(<<token.v[1], [token.v[2] EXCEPT !.name = JStr(<<"z">>)],
           token.v[3]>>)
\* The claims of the minted token signed under another key.
Resign(token) ==
    JStr(<<token.v[1], token.v[2],
           Mac(<<"e">>, token.v[1], token.v[2])>>)
\* The claims of the minted token under the algorithm none.
Unsigned(token) ==
    LET header == [alg |-> "none", typ |-> "JWT"]
    IN  JStr(<<header, token.v[2], Mac(<<>>, header, token.v[2])>>)

\* Strings a client may send as the session cookie.
CookieStrings ==
    {JStr(<<>>), JStr(<<"x">>)} \cup
    (IF Truthy(sessionToken)
     THEN {sessionToken, Tamper(sessionToken), Resign(sessionToken),
           Unsigned(sessionToken)}
     ELSE {})

\* Arguments of verifySession.
CookieValues == {JUndefined, JNull} \cup CookieStrings

\* What a client holding the token sends: the token, or "x" before it has one.
HeldCookie == IF Truthy(sessionToken) THEN sessionToken ELSE JStr(<<"x">>)

\* Requests: no Cookie header, an empty one, the session cookie alone, the
\* held cookie under another name, or behind an earlier cookie of its name.
Requests ==
    {[headers |-> [cookie |-> h]] : h \in
        {JUndefined, JStr(<<>>)} \cup
        {JStr(<<[name |-> COOKIE_NAME, value |-> c]>>) : c \in CookieStrings}
        \cup
        {JStr(<<[name |-> "theme", value |-> HeldCookie]>>),
         JStr(<<[name |-> COOKIE_NAME, value |-> JStr(<<"x">>)],
                [name |-> COOKIE_NAME, value |-> HeldCookie]>>)}}

\* The users table: u absent, a plain user or an admin; w a plain user.
UserRow(openId, role) ==
    [openId |-> openId, role |-> role, lastSignedIn |-> Ms(0, 0)]
UserStores ==
    {{UserRow(<<"w">>, "user")} \cup rows :
        rows \in {{}, {UserRow(<<"u">>, "user")}, {UserRow(<<"u">>, "admin")}}}

InitSession ==
    /\ ENV \in Environments
    /\ clock = Ms(1, 0)
    /\ ticks = 0
    /\ sessionToken = JUndefined
    /\ minted = NotMinted
    /\ lastVerify = NotVerified
    /\ users \in UserStores
    /\ lastAuth = NotAuthenticated
    /\ upsertCalls = 0
    /\ requests = 0

\* Half a second passes.
Tick ==
    /\ ticks < MaxTicks
    /\ ticks' = ticks + 1
    /\ clock' = MsAdd(clock, Ms(0, 500))
    /\ UNCHANGED <<ENV, sessionToken, minted, lastVerify, users, lastAuth,
                   upsertCalls, requests, refreshVars, weightVars, embedVars>>

SignSession ==
    /\ ~minted.called
    /\ \E payload \in SessionPayloads, expires \in ExpiryOptions :
          LET signed == signSession(payload, expires, ENV, clock)
          IN  /\ sessionToken' = signed.value
              /\ minted' = [called |-> TRUE, via |-> "signSession",
                            nameGiven |-> TRUE, payload |-> payload,
                            threw |-> signed.threw]
    /\ UNCHANGED <<ENV, clock, ticks, lastVerify, users, lastAuth,
                   upsertCalls, requests, refreshVars, weightVars, embedVars>>

CreateSessionToken ==
    /\ ~minted.called
    /\ \E openId \in {JStr(<<>>), JStr(<<"u">>)},
          name \in {JUndefined, JStr(<<>>), JStr(<<"n">>)},
          expires \in ExpiryOptions :
          LET signed == createSessionToken(openId, expires, name, ENV, clock)
          IN  /\ sessionToken' = signed.value
              /\ minted' = [called |-> TRUE, via |-> "createSessionToken",
                            nameGiven |-> name # JUndefined,
                            payload |-> SessionPayloadOf(openId, name, ENV),
                            threw |-> signed.threw]
    /\ UNCHANGED <<ENV, clock, ticks, lastVerify, users, lastAuth,
                   upsertCalls, requests, refreshVars, weightVars, embedVars>>

VerifySession ==
    /\ \E cookieValue \in CookieValues :
          lastVerify' = [called |-> TRUE, cookie |-> cookieValue,
                         at |-> clock,
                         outcome |-> verifySession(cookieValue, ENV, clock)]
    /\ UNCHANGED <<ENV, clock, ticks, sessionToken, minted, users, lastAuth,
                   upsertCalls, requests, refreshVars, weightVars, embedVars>>

NextSession ==
    \/ Tick
    \/ SignSession
    \/ CreateSessionToken
    \/ VerifySession

\* No catalogue and no refresh; any environment and users table.
InitSessions == NoRefresh /\ InitWeights /\ InitEmbed /\ InitSession

SpecSession == InitSessions /\ [][NextSession]_vars

(***************************************************************************)
(* Requests: a token is minted, time passes, authenticateRequest is called *)
(* on any request.                                                         *)
(***************************************************************************)
AuthenticateRequest ==
    /\ requests < MaxRequests
    /\ requests' = requests + 1
    /\ \E req \in Requests :
          LET result == authenticateRequest(req, users, ENV, clock)
          IN  /\ users' = result.store
              /\ upsertCalls' = upsertCalls + Len(result.upserts)
              /\ lastAuth' = [called |-> TRUE, req |-> req, at |-> clock,
                              before |-> users,
                              upsertsBefore |-> upsertCalls,
                              outcome |-> result.outcome]
    /\ UNCHANGED <<ENV, clock, ticks, sessionToken, minted, lastVerify,
                   refreshVars, weightVars, embedVars>>

NextAuth ==
    \/ Tick
    \/ SignSession
    \/ CreateSessionToken
    \/ AuthenticateRequest

SpecAuth == InitSessions /\ [][NextAuth]_vars

(***************************************************************************)
(* Properties.                                                             *)
(***************************************************************************)
RowsOf(table, productId) == {r \in table : r.productId = productId}
Processed == {products[i].id : i \in 1..idx}
InRun == pc \in {"loop", "done"} \/ (pc = "aborted" /\ errorCause = "end")

\* C1: the refresh goes on past the products whose body throws: no error of
\* a product ends the run, each product read so far was attempted exactly
\* once, failed counts the products that threw and success the others, each
\* of which has its row with the vector of its text; the finished run has
\* attempted every product.
RefreshContinuesPastFailures ==
    /\ errorCause # "row"
    /\ InRun =>
          /\ \A p \in ProductIds : attempts[p] = IF p \in Processed THEN 1 ELSE 0
          /\ threw \cup upserted = Processed
          /\ threw \cap upserted = {}
          /\ failed = Cardinality(threw)
          /\ success = Cardinality(Processed \ threw)
          /\ \A p \in upserted :
                \E r \in product_embeddings :
                   /\ r.productId = p
                   /\ r.embedding =
                         generateEmbedding(BuildTextToEmbed(products[p]).text)
    /\ pc = "done" => idx = Len(products)

\* A finished run in which a product threw and a later one was upserted.
RefreshContinuesWitness ==
    /\ pc = "done"
    /\ \E i \in 1..Len(products), k \in 1..Len(products) :
          /\ i < k
          /\ products[i].id \in threw
          /\ products[k].id \in upserted
          /\ failed = 1
          /\ success = 1

\* C2: a run after a run that went through the catalogue leaves, for every
\* product the earlier run upserted, exactly the rows the earlier run left
\* (same row, same vector, same textUsed).
RefreshIsIdempotent ==
    prev.valid =>
        \A p \in prev.ok : RowsOf(product_embeddings, p) = RowsOf(prev.table, p)

\* A second run that finished after upserting again a product of the first.
RefreshIdempotentWitness ==
    /\ pc = "done"
    /\ prev.valid
    /\ prev.ok \cap upserted # {}

UniqueProductId(table) ==
    \A r1 \in table, r2 \in table : r1.productId = r2.productId => r1 = r2

\* C3: product_embeddings never holds two rows of one productId, and a step
\* that changes the table is the upsert of the product p the loop is at: the
\* rows of the other products are as before, and a row p had keeps its id
\* and gets the new vector and textUsed.
UpsertKeyedOnProductId ==
    /\ [](UniqueProductId(product_embeddings))
    /\ [][product_embeddings' # product_embeddings =>
            /\ pc = "loop"
            /\ idx < Len(products)
            /\ LET product == products[idx + 1]
                   text    == BuildTextToEmbed(product).text
               IN  /\ {r \in product_embeddings' : r.productId # product.id}
                         = {r \in product_embeddings : r.productId # product.id}
                   /\ \E r \in product_embeddings' :
                         /\ r.productId = product.id
                         /\ r.embedding = generateEmbedding(text)
                         /\ r.textUsed = Slice0(text, TextUsedMax)
                   /\ \A r \in RowsOf(product_embeddings, product.id) :
                         \E r2 \in product_embeddings' :
                            r2.id = r.id /\ r2.productId = product.id]_vars

\* The row of a product was overwritten while another product has a row.
UpsertKeyedWitness ==
    \E r \in product_embeddings, other \in product_embeddings :
        /\ r.embeddingModel = DefaultEmbeddingModel
        /\ r.productId \in upserted
        /\ r.embedding # ModelBackedVector
        /\ other.productId # r.productId

ForwardEdges ==
    {<<"pending", "processing">>, <<"processing", "embedding">>,
     <<"embedding", "completed">>, <<"pending", "failed">>,
     <<"processing", "failed">>, <<"embedding", "failed">>}

AtMostOneActiveWeights ==
    Cardinality({r \in ranking_weights : r.isActive}) <= 1

\* C6: textUsed of a row written by the refresh is the text that was given
\* to the embedder for the vector of the row.
TextUsedIsEmbeddedText ==
    \A r \in product_embeddings :
        r.productId \in upserted => r.textUsed = audit[r.productId].text

\* C7: embeddingModel of a row names the model that produced its vector.
EmbeddingModelIsProducer ==
    \A r \in product_embeddings : r.embeddingModel = audit[r.productId].producer

RECURSIVE CollapseWhitespace(_)
\* Runs of whitespace replaced by one space.
CollapseWhitespace(text) ==
    IF text = <<>> THEN <<>>
    ELSE IF Len(text) >= 2 /\ IsWhitespace(text[1]) /\ IsWhitespace(text[2])
    THEN CollapseWhitespace(Tail(text))
    ELSE <<Head(text)>> \o CollapseWhitespace(Tail(text))

\* C8 as stated: texts equal after lower-casing and collapsing whitespace
\* get the same embedding.
SameNormalizedSameEmbedding ==
    (calls = 2 /\ CollapseWhitespace(toLowerCase(textA))
                    = CollapseWhitespace(toLowerCase(textB)))
        => embA = embB

\* C8 as amended: texts equal after lower-casing get the same embedding.
SameLowerCaseSameEmbedding ==
    (calls = 2 /\ toLowerCase(textA) = toLowerCase(textB)) => embA = embB

\* Two different texts, equal after lower-casing, have been embedded.
SameLowerCaseWitness ==
    /\ calls = 2
    /\ textA # textB
    /\ textA # <<>>
    /\ toLowerCase(textA) = toLowerCase(textB)
    /\ embA = embB

\* The feature strings of a product, whatever the stored shape of features.
FeatureStrings(features) ==
    CASE features.t = "array" ->
            [k \in 1..Len(features.v) |-> ToStringJS(features.v[k])]
      [] features.t = "string" ->
            LET parsed == JSONParse(features.v)
                parts  == Split(features.v, ",")
            IN  IF parsed.ok /\ parsed.val.t = "array"
                THEN [k \in 1..Len(parsed.val.v) |-> ToStringJS(parsed.val.v[k])]
                ELSE [k \in 1..Len(parts) |-> Trim(parts[k])]
      [] OTHER -> <<>>

FieldString(value) == IF value.t = "null" THEN <<>> ELSE ToStringJS(value)

\* title, description, category, subcategory, brand and each feature string,
\* the empty ones left out, joined by single spaces.
ExpectedText(product) ==
    LET strings == <<FieldString(product.title), FieldString(product.description),
                     FieldString(product.category), FieldString(product.subcategory),
                     FieldString(product.brand)>>
                   \o FeatureStrings(product.features)
    IN  JoinChars(SelectSeq(strings, LAMBDA str : str # <<>>), <<" ">>)

\* C9: the text embedded for a product is ExpectedText of the product.
TextAssembledInOrder ==
    InRun =>
        \A i \in 1..idx :
            products[i].id \in upserted =>
                audit[products[i].id].text = ExpectedText(products[i])

ZeroVector == [i \in 1..EMBEDDING_DIMENSION |-> 0]

\* C10: every vector the embedder returns has EMBEDDING_DIMENSION
\* components, and the vector of the empty text is all zero.
EmbeddingHasDimension ==
    /\ calls >= 1 =>
          /\ Len(embA) = EMBEDDING_DIMENSION
          /\ textA = <<>> => embA = ZeroVector
    /\ calls >= 2 =>
          /\ Len(embB) = EMBEDDING_DIMENSION
          /\ textB = <<>> => embB = ZeroVector

\* The empty text and a non-empty text have been embedded.
EmbeddingDimensionWitness ==
    /\ calls = 2
    /\ textA = <<>>
    /\ embA = ZeroVector
    /\ textB # <<>>
    /\ embB # ZeroVector
    /\ Len(embB) = EMBEDDING_DIMENSION

\* The last call of verifySession was on the minted token.
VerifiedMinted ==
    /\ lastVerify.called
    /\ minted.called
    /\ ~minted.threw
    /\ lastVerify.cookie = sessionToken
\* The minted token had not expired when it was verified.
Unexpired == sessionToken.v[2].exp > lastVerify.at.s
\* openId, appId and name of the payload are all non-empty strings.
AllNonEmptyStrings(payload) ==
    \A field \in {payload.openId, payload.appId, payload.name} :
        field.t = "string" /\ field.v # <<>>
\* The token came from createSessionToken called without a name option.
MintedWithoutName ==
    minted.via = "createSessionToken" /\ ~minted.nameGiven

\* C11 (as stated): verifySession never throws; for an unexpired token made
\* by signSession or createSessionToken it returns the signed payload
\* exactly when openId, appId and name are all non-empty strings and appId
\* equals the configured app id (ENV.appId), and null otherwise; a token of
\* createSessionToken without a name option is never accepted.
SessionRoundTrip ==
    lastVerify.called =>
        /\ ~lastVerify.outcome.threw
        /\ (VerifiedMinted /\ Unexpired) =>
               lastVerify.outcome.value =
                   IF /\ AllNonEmptyStrings(minted.payload)
                      /\ minted.payload.appId = ENV.appId
                   THEN JObj(minted.payload)
                   ELSE JNull
        /\ (VerifiedMinted /\ MintedWithoutName) =>
               lastVerify.outcome.value = JNull

\* C11 (amended): verifySession never throws; for an unexpired token made
\* by signSession or createSessionToken it returns the signed payload
\* exactly when openId, appId and name are all non-empty strings and, if an
\* app id is configured (ENV.appId is non-empty), appId equals it, and null
\* otherwise; a token of createSessionToken without a name option is never
\* accepted.
SessionRoundTripOptionalAppId ==
    lastVerify.called =>
        /\ ~lastVerify.outcome.threw
        /\ (VerifiedMinted /\ Unexpired) =>
               lastVerify.outcome.value =
                   IF /\ AllNonEmptyStrings(minted.payload)
                      /\ (ENV.appId.v = <<>> \/ minted.payload.appId = ENV.appId)
                   THEN JObj(minted.payload)
                   ELSE JNull
        /\ (VerifiedMinted /\ MintedWithoutName) =>
               lastVerify.outcome.value = JNull

\* A minted token, verified before its expiry, was accepted.
SessionRoundTripWitness ==
    /\ VerifiedMinted
    /\ Unexpired
    /\ lastVerify.outcome.value = JObj(minted.payload)

\* The session the last request carried when it was made: what verifySession
\* made of its session cookie.
SessionOfRequest ==
    verifySession(MapGet(parseCookies(lastAuth.req.headers.cookie),
                         COOKIE_NAME),
                  ENV, lastAuth.at).value
\* Rows the users table held for the session's openId before the request.
UsersOfSession ==
    {u \in lastAuth.before : JStr(u.openId) = SessionOfRequest.v.openId}
\* The session cookie was missing or invalid, or its openId had no user.
MustBeRefused ==
    SessionOfRequest = JNull \/ UsersOfSession = {}

====
